---- MODULE Spec2Model ----
(***************************************************************************)
(* Model of the Alertmanager MCP server (src/src/index.ts): the upstream   *)
(* client fetchFromAlertmanager and the six tool handlers registered on    *)
(* the server, each followed from its invocation by the host to the        *)
(* envelope it returns.                                                    *)
(*                                                                         *)
(* Representation.                                                         *)
(*  - A JavaScript object is a record; a property that is undefined is a   *)
(*    field the record does not have ("k" \in DOMAIN obj tests presence).  *)
(*  - A JavaScript array is a sequence.                                    *)
(*  - A text built by a template literal is the sequence of its parts, in  *)
(*    order: Lit(s) is the string s, Stringify(v) is the text that         *)
(*    JSON.stringify(v, null, 2) produces for v.                           *)
(*  - A string that is URL-encoded is a sequence of tokens, each token a   *)
(*    run of unreserved characters or one reserved character.              *)
(*  - A parsed JSON document whose shape the code does not control is      *)
(*    tagged: [t |-> "array", v |-> seq], [t |-> "object", v |-> record],  *)
(*    [t |-> "null"].                                                      *)
(***************************************************************************)
EXTENDS Integers, Sequences, FiniteSets, TLC

\* ------------------------------------------------------------------------
\* Bounds of the model
\* ------------------------------------------------------------------------
NumInv == 2          \* invocation slots
MaxList == 2         \* longest alert / silence list the upstream returns
MaxMatchers == 2     \* longest matcher list a caller passes
TickMs == 5000       \* granularity of elapsed time, in ms
MaxElapsed == 15000  \* elapsed time is followed up to here, in ms

Inv == 1..NumInv

\* ------------------------------------------------------------------------
\* Configuration
\* ------------------------------------------------------------------------
DEFAULT_ALERTMANAGER_URL == "http://localhost:9093"
DEFAULT_TIMEOUT == 10000

\* process.env: ALERTMANAGER_URL unset, or set
Environments == {<<>>, [ALERTMANAGER_URL |-> "http://am.example:9093"]}

\* ------------------------------------------------------------------------
\* Generic helpers
\* ------------------------------------------------------------------------
SeqsUpTo(S, n) == UNION {[1..k -> S] : k \in 0..n}

Lit(s) == [lit |-> s]
Stringify(v) == [json |-> v]
IsLit(p) == "lit" \in DOMAIN p
IsJson(p) == "json" \in DOMAIN p

\* {name: obj[key]}: the property is undefined when obj has no such key
Prop(name, obj, key) == IF key \in DOMAIN obj THEN (name :> obj[key]) ELSE <<>>

\* (mutant) obj[key] ?? dflt: only an undefined property takes the default
OrDefaultNullish(obj, key, dflt) ==
  IF key \in DOMAIN obj THEN obj[key] ELSE dflt

\* obj[key] || dflt, for string-valued properties: undefined and "" are falsy
OrDefault(obj, key, dflt) ==
  IF key \in DOMAIN obj /\ obj[key] # "" THEN obj[key] ELSE dflt

\* ------------------------------------------------------------------------
\* Errors and envelopes
\* ------------------------------------------------------------------------
NoError == [name |-> "none", message |-> <<>>]
MkError(name, message) == [name |-> name, message |-> message]
TypeErrorReading(base, prop) ==
  MkError("TypeError",
          <<Lit("Cannot read properties of "), Lit(base), Lit(" (reading '"),
            Lit(prop), Lit("')")>>)
NotAFunction(what) ==
  MkError("TypeError", <<Lit(what), Lit(" is not a function")>>)

NoResult == [none |-> TRUE]
SuccessEnvelope(text) == [content |-> <<[type |-> "text", text |-> text]>>]
ErrorEnvelope(text) ==
  [content |-> <<[type |-> "text", text |-> text]>>, isError |-> TRUE]

\* completion of a piece of code: it returns a value or throws an error
Return(v) == [kind |-> "return", value |-> v, error |-> NoError]
Throw(e) == [kind |-> "throw", value |-> NoResult, error |-> e]

Operations ==
  {"get-alerts", "get-alert-details", "create-silence", "get-silences",
   "delete-silence", "get-alert-groups"}

ErrorPrefix(o) ==
  CASE o = "get-alerts" -> "Error fetching alerts: "
    [] o = "get-alert-details" -> "Error fetching alert details: "
    [] o = "create-silence" -> "Error creating silence: "
    [] o = "get-silences" -> "Error fetching silences: "
    [] o = "delete-silence" -> "Error deleting silence: "
    [] o = "get-alert-groups" -> "Error fetching alert groups: "

\* error instanceof Error ? error.message : String(error)
ErrorClasses == {"Error", "TypeError", "SyntaxError", "AbortError"}
errorMessage(error) ==
  IF error.name \in ErrorClasses THEN error.message
  ELSE <<Lit(error.name)>>

\* (mutant) the catch block rethrows instead of returning an envelope
HandlerCatchRethrows(o, error) == Throw(error)

\* the catch block of a handler
HandlerCatch(o, error) ==
  Return(ErrorEnvelope(<<Lit(ErrorPrefix(o))>> \o errorMessage(error)))

\* ------------------------------------------------------------------------
\* Query strings (URLSearchParams)
\* ------------------------------------------------------------------------
\* A value is a sequence of tokens, each one ASCII character.  The
\* application/x-www-form-urlencoded serializer writes a space as "+", leaves
\* the letters, the digits and * - . _ as they are and percent-encodes the rest.
\* The token alphabet is the printable ASCII characters without the grave
\* accent (%60), which cannot be written in a string here.
PercentCodes ==
  ("!" :> "%21") @@ ("\"" :> "%22") @@ ("#" :> "%23") @@ ("$" :> "%24")
  @@ ("%" :> "%25") @@ ("&" :> "%26") @@ ("'" :> "%27") @@ ("(" :> "%28")
  @@ (")" :> "%29") @@ ("+" :> "%2B") @@ ("," :> "%2C") @@ ("/" :> "%2F")
  @@ (":" :> "%3A") @@ (";" :> "%3B") @@ ("<" :> "%3C") @@ ("=" :> "%3D")
  @@ (">" :> "%3E") @@ ("?" :> "%3F") @@ ("@" :> "%40") @@ ("[" :> "%5B")
  @@ ("\\" :> "%5C") @@ ("]" :> "%5D") @@ ("^" :> "%5E")
  @@ ("{" :> "%7B") @@ ("|" :> "%7C") @@ ("}" :> "%7D") @@ ("~" :> "%7E")

PercentEncode(tok) ==
  IF tok = " " THEN "+"
  ELSE IF tok \in DOMAIN PercentCodes THEN PercentCodes[tok]
  ELSE tok

RECURSIVE EncodeTokens(_)
EncodeTokens(toks) ==
  IF toks = <<>> THEN <<>>
  ELSE <<PercentEncode(Head(toks))>> \o EncodeTokens(Tail(toks))

\* params.toString(): name=value pairs joined by "&"
RECURSIVE ParamsToString(_)
ParamsToString(params) ==
  IF params = <<>> THEN <<>>
  ELSE <<Head(params).name, "=">> \o EncodeTokens(Head(params).value)
       \o (IF Tail(params) = <<>> THEN <<>>
           ELSE <<"&">> \o ParamsToString(Tail(params)))

\* if (x) params.append(name, value)
AppendIf(cond, name, value) ==
  IF cond THEN <<[name |-> name, value |-> value]>> ELSE <<>>

\* `${resource}${queryString ? '?' + queryString : ''}`
PathWithQuery(resource, params) ==
  LET queryString == ParamsToString(params)
  IN  <<resource>> \o (IF queryString # <<>> THEN <<"?">> \o queryString ELSE <<>>)

\* a boolean argument with a default value in the handler's parameter list
ArgOr(a, key, dflt) == IF key \in DOMAIN a THEN a[key] ELSE dflt
\* if (filter): undefined and "" are falsy
FilterGiven(a) == "filter" \in DOMAIN a /\ a.filter # <<>>

\* (mutant) active has no default: an omitted active is sent as active=false
AlertsParamsNoDefault(a) ==
  AppendIf(FilterGiven(a), "filter", ArgOr(a, "filter", <<>>))
  \o AppendIf(ArgOr(a, "silenced", FALSE), "silenced", <<"true">>)
  \o AppendIf(ArgOr(a, "inhibited", FALSE), "inhibited", <<"true">>)
  \o AppendIf(~ArgOr(a, "active", FALSE), "active", <<"false">>)

AlertsParams(a) ==
  AppendIf(FilterGiven(a), "filter", ArgOr(a, "filter", <<>>))
  \o AppendIf(ArgOr(a, "silenced", FALSE), "silenced", <<"true">>)
  \o AppendIf(ArgOr(a, "inhibited", FALSE), "inhibited", <<"true">>)
  \o AppendIf(~ArgOr(a, "active", TRUE), "active", <<"false">>)

SilencesParams(a) ==
  AppendIf(FilterGiven(a), "filter", ArgOr(a, "filter", <<>>))

GroupsParams(a) ==
  AppendIf(~ArgOr(a, "active", TRUE), "active", <<"false">>)
  \o AppendIf(ArgOr(a, "silenced", FALSE), "silenced", <<"true">>)
  \o AppendIf(ArgOr(a, "inhibited", FALSE), "inhibited", <<"true">>)

\* ------------------------------------------------------------------------
\* The request each handler builds before it awaits the upstream
\* ------------------------------------------------------------------------
Pad3(n) ==
  IF n < 10 THEN "00" \o ToString(n)
  ELSE IF n < 100 THEN "0" \o ToString(n) ELSE ToString(n)
\* new Date(ms).toISOString(), for instants within ten seconds of the epoch
toISOString(ms) ==
  "1970-01-01T00:00:0" \o ToString(ms \div 1000) \o "." \o Pad3(ms % 1000) \o "Z"

\* (mutant) isRegex is set whenever the matcher names the property
NormalizeMatcherByPresence(m) ==
  [name |-> m.name, value |-> m.value, isRegex |-> "isRegex" \in DOMAIN m]

\* m.isRegex || false
NormalizeMatcher(m) ==
  [name |-> m.name, value |-> m.value,
   isRegex |-> ("isRegex" \in DOMAIN m /\ m.isRegex)]

\* (mutant) the start is always the current time
silenceDataAlwaysNow(a, now) ==
  [matchers |-> [k \in 1..Len(a.matchers) |-> NormalizeMatcher(a.matchers[k])],
   startsAt |-> now,
   endsAt |-> a.endsAt,
   createdBy |-> a.createdBy,
   comment |-> a.comment]

silenceData(a, now) ==
  [matchers |-> [k \in 1..Len(a.matchers) |-> NormalizeMatcher(a.matchers[k])],
   startsAt |-> OrDefault(a, "startsAt", now),
   endsAt |-> a.endsAt,
   createdBy |-> a.createdBy,
   comment |-> a.comment]

\* the path and the options a handler passes to fetchFromAlertmanager
HandlerCall(o, a, now) ==
  CASE o = "get-alerts" ->
         [path |-> PathWithQuery("alerts", AlertsParams(a)), options |-> <<>>]
    [] o = "get-alert-details" ->
         [path |-> <<"alerts">>, options |-> <<>>]
    [] o = "create-silence" ->
         [path |-> <<"silences">>,
          options |-> [method |-> "POST",
                       headers |-> ("Content-Type" :> "application/json"),
                       body |-> Stringify(silenceData(a, now))]]
    [] o = "get-silences" ->
         [path |-> PathWithQuery("silences", SilencesParams(a)), options |-> <<>>]
    [] o = "delete-silence" ->
         [path |-> <<"silence/", a.silenceId>>, options |-> [method |-> "DELETE"]]
    [] o = "get-alert-groups" ->
         [path |-> PathWithQuery("alerts/groups", GroupsParams(a)), options |-> <<>>]

\* process.env.ALERTMANAGER_URL || DEFAULT_ALERTMANAGER_URL
baseUrl(e) == OrDefault(e, "ALERTMANAGER_URL", DEFAULT_ALERTMANAGER_URL)
\* `${baseUrl}/api/v2/${path}`
Url(e, path) == <<baseUrl(e), "/api/v2/">> \o path

\* ------------------------------------------------------------------------
\* What each handler does with the parsed response
\* ------------------------------------------------------------------------
\* (mutant) silenced and inhibited are read off the state string
FormattedStatusFromState(status) ==
  Prop("state", status, "state")
  @@ [silenced |-> ("state" \in DOMAIN status /\ status.state = "suppressed"),
      inhibited |-> ("state" \in DOMAIN status /\ status.state = "suppressed")]

\* the status object of a formatted alert
FormattedStatus(status) ==
  Prop("state", status, "state")
  @@ [silenced |-> Len(status.silencedBy) > 0,
      inhibited |-> Len(status.inhibitedBy) > 0]

FormatAlert(alert) ==
  IF "labels" \notin DOMAIN alert
    THEN Throw(TypeErrorReading("undefined", "alertname"))
  ELSE IF "annotations" \notin DOMAIN alert
    THEN Throw(TypeErrorReading("undefined", "summary"))
  ELSE IF "status" \notin DOMAIN alert
    THEN Throw(TypeErrorReading("undefined", "state"))
  ELSE IF "silencedBy" \notin DOMAIN alert.status
    THEN Throw(TypeErrorReading("undefined", "length"))
  ELSE IF "inhibitedBy" \notin DOMAIN alert.status
    THEN Throw(TypeErrorReading("undefined", "length"))
  ELSE Return(
    Prop("fingerprint", alert, "fingerprint")
    @@ Prop("alertname", alert.labels, "alertname")
    @@ [severity |-> OrDefault(alert.labels, "severity", "unknown"),
        summary |-> OrDefault(alert.annotations, "summary", "No summary provided"),
        description |->
          OrDefault(alert.annotations, "description", "No description provided")]
    @@ Prop("startsAt", alert, "startsAt")
    @@ [status |-> FormattedStatus(alert.status),
        labels |-> alert.labels])

\* (mutant) an element that throws is skipped and the rest is returned
RECURSIVE MapAlertsSkipping(_)
MapAlertsSkipping(alerts) ==
  IF alerts = <<>> THEN Return(<<>>)
  ELSE LET h == FormatAlert(Head(alerts))
           t == MapAlertsSkipping(Tail(alerts))
       IN  IF h.kind = "throw" THEN t ELSE Return(<<h.value>> \o t.value)

\* alerts.map(alert => ...): the first element that throws ends the map
RECURSIVE MapAlerts(_)
MapAlerts(alerts) ==
  IF alerts = <<>> THEN Return(<<>>)
  ELSE LET h == FormatAlert(Head(alerts))
       IN  IF h.kind = "throw" THEN h
           ELSE LET t == MapAlerts(Tail(alerts))
                IN  IF t.kind = "throw" THEN t
                    ELSE Return(<<h.value>> \o t.value)

GetAlertsThen(data) ==
  IF data.t = "null" THEN Throw(TypeErrorReading("null", "map"))
  ELSE IF data.t # "array" THEN Throw(NotAFunction("alerts.map"))
  ELSE LET m == MapAlerts(data.v)
       IN  IF m.kind = "throw" THEN m
           ELSE Return(SuccessEnvelope(<<Stringify(m.value)>>))

\* (mutant) the scan keeps the last match instead of the first
RECURSIVE FindLastIndex(_, _, _)
FindLastIndex(alerts, fingerprint, base) ==
  IF alerts = <<>> THEN 0
  ELSE LET later == FindLastIndex(Tail(alerts), fingerprint, base + 1)
       IN  IF later # 0 THEN later
           ELSE IF "fingerprint" \in DOMAIN Head(alerts)
                   /\ Head(alerts).fingerprint = fingerprint
             THEN base + 1
           ELSE 0

\* alerts.find(a => a.fingerprint === fingerprint): the index of the first
\* match, counted from base + 1; 0 when there is none
RECURSIVE FindIndex(_, _, _)
FindIndex(alerts, fingerprint, base) ==
  IF alerts = <<>> THEN 0
  ELSE IF "fingerprint" \in DOMAIN Head(alerts)
          /\ Head(alerts).fingerprint = fingerprint
    THEN base + 1
  ELSE FindIndex(Tail(alerts), fingerprint, base + 1)

AlertDetails(alert) ==
  IF "labels" \notin DOMAIN alert
    THEN Throw(TypeErrorReading("undefined", "alertname"))
  ELSE Return(
    Prop("fingerprint", alert, "fingerprint")
    @@ Prop("alertname", alert.labels, "alertname")
    @@ Prop("labels", alert, "labels")
    @@ Prop("annotations", alert, "annotations")
    @@ Prop("startsAt", alert, "startsAt")
    @@ Prop("endsAt", alert, "endsAt")
    @@ Prop("generatorURL", alert, "generatorURL")
    @@ Prop("status", alert, "status"))

\* (mutant) a missing alert is thrown, so the catch block reports it
GetAlertDetailsThenThrowing(a, data) ==
  IF data.t = "null" THEN Throw(TypeErrorReading("null", "find"))
  ELSE IF data.t # "array" THEN Throw(NotAFunction("alerts.find"))
  ELSE LET k == FindIndex(data.v, a.fingerprint, 0)
       IN  IF k = 0
             THEN Throw(MkError("Error", <<Lit("Alert with fingerprint "),
                                           Lit(a.fingerprint), Lit(" not found")>>))
           ELSE LET d == AlertDetails(data.v[k])
                IN  IF d.kind = "throw" THEN d
                    ELSE Return(SuccessEnvelope(<<Stringify(d.value)>>))

GetAlertDetailsThen(a, data) ==
  IF data.t = "null" THEN Throw(TypeErrorReading("null", "find"))
  ELSE IF data.t # "array" THEN Throw(NotAFunction("alerts.find"))
  ELSE LET k == FindIndex(data.v, a.fingerprint, 0)
       IN  IF k = 0
             THEN Return(ErrorEnvelope(<<Lit("Alert with fingerprint "),
                                         Lit(a.fingerprint), Lit(" not found")>>))
           ELSE LET d == AlertDetails(data.v[k])
                IN  IF d.kind = "throw" THEN d
                    ELSE Return(SuccessEnvelope(<<Stringify(d.value)>>))

\* `${response.silenceID}`: an undefined property prints as "undefined"
CreateSilenceThen(data) ==
  IF data.t = "null" THEN Throw(TypeErrorReading("null", "silenceID"))
  ELSE Return(SuccessEnvelope(
         <<Lit("Successfully created silence with ID: "),
           Lit(IF data.t = "object" /\ "silenceID" \in DOMAIN data.v
               THEN data.v.silenceID ELSE "undefined")>>))

FormatSilence(silence) ==
  IF "status" \notin DOMAIN silence
    THEN Throw(TypeErrorReading("undefined", "state"))
  ELSE Return(
    Prop("id", silence, "id")
    @@ Prop("status", silence.status, "state")
    @@ Prop("createdBy", silence, "createdBy")
    @@ Prop("comment", silence, "comment")
    @@ Prop("startsAt", silence, "startsAt")
    @@ Prop("endsAt", silence, "endsAt")
    @@ Prop("matchers", silence, "matchers"))

RECURSIVE MapSilences(_)
MapSilences(silences) ==
  IF silences = <<>> THEN Return(<<>>)
  ELSE LET h == FormatSilence(Head(silences))
       IN  IF h.kind = "throw" THEN h
           ELSE LET t == MapSilences(Tail(silences))
                IN  IF t.kind = "throw" THEN t
                    ELSE Return(<<h.value>> \o t.value)

GetSilencesThen(data) ==
  IF data.t = "null" THEN Throw(TypeErrorReading("null", "map"))
  ELSE IF data.t # "array" THEN Throw(NotAFunction("silences.map"))
  ELSE LET m == MapSilences(data.v)
       IN  IF m.kind = "throw" THEN m
           ELSE Return(SuccessEnvelope(<<Stringify(m.value)>>))

DeleteSilenceThen(a) ==
  Return(SuccessEnvelope(
    <<Lit("Successfully deleted silence with ID: "), Lit(a.silenceId)>>))

GetAlertGroupsThen(data) == Return(SuccessEnvelope(<<Stringify(data)>>))

\* the rest of a handler's try block, once fetchFromAlertmanager returned data
HandlerThen(o, a, data) ==
  CASE o = "get-alerts" -> GetAlertsThen(data)
    [] o = "get-alert-details" -> GetAlertDetailsThen(a, data)
    [] o = "create-silence" -> CreateSilenceThen(data)
    [] o = "get-silences" -> GetSilencesThen(data)
    [] o = "delete-silence" -> DeleteSilenceThen(a)
    [] o = "get-alert-groups" -> GetAlertGroupsThen(data)

\* try { ... } catch (error) { ... } around a handler's body
HandlerTry(o, completion) ==
  IF completion.kind = "throw" THEN HandlerCatch(o, completion.error)
  ELSE completion

\* ------------------------------------------------------------------------
\* fetchFromAlertmanager, after the response headers arrived
\* ------------------------------------------------------------------------
\* (mutant) only server errors are failures
OkBelow500(status) == status >= 200 /\ status < 500

\* response.ok
Ok(status) == status >= 200 /\ status <= 299

HttpError(status, statusText) ==
  MkError("Error", <<Lit("Alertmanager API error: "), Lit(ToString(status)),
                     Lit(" "), Lit(statusText)>>)

\* response.json(): the parsed document, or a SyntaxError
ResponseJson(body) ==
  CASE body.kind = "json" -> Return(body.value)
    [] body.kind = "empty" ->
         Throw(MkError("SyntaxError", <<Lit("Unexpected end of JSON input")>>))
    [] body.kind = "text" ->
         Throw(MkError("SyntaxError",
                       <<Lit("Unexpected token < in JSON at position 0")>>))

\* (mutant) console.log: the text goes to the standard output
ConsoleLog(text) == [stream |-> "stdout", text |-> text]

\* console.error(text): the text goes to the standard error
ConsoleError(text) == [stream |-> "stderr", text |-> text]

\* `Error fetching from Alertmanager: ${errorMessage}`
LogLine(error) == <<Lit("Error fetching from Alertmanager: ")>> \o errorMessage(error)

\* ------------------------------------------------------------------------
\* Inputs: the arguments the argument schemas accept
\* ------------------------------------------------------------------------
\* z.boolean().optional(), for each of the keys
OptBools(keys) == UNION {[D -> BOOLEAN] : D \in SUBSET keys}
\* z.string().optional(): absent, the empty string, or a query
FilterValues == {<<>>, <<"a", "=", "~", "'", "b", "&", " ", "'">>}
OptFilter == {<<>>} \cup {[filter |-> f] : f \in FilterValues}

Fingerprints == {"", "fp1", "fp9"}
SilenceIds == {"", "s1"}
Matchers ==
  {[name |-> "alertname", value |-> "X"],
   [name |-> "job", value |-> "n.*", isRegex |-> TRUE],
   [name |-> "alertname", value |-> "X", isRegex |-> FALSE]}
OptStartsAt == {<<>>, [startsAt |-> ""], [startsAt |-> "2029-12-31T00:00:00Z"]}
Comments == {"", "c"}
\* instants the wall clock may show when it is read, in ms since the epoch
WallClock == {0, 1500}

ArgsOf(o) ==
  CASE o = "get-alerts" ->
         {f @@ b : f \in OptFilter, b \in OptBools({"silenced", "inhibited", "active"})}
    [] o = "get-alert-details" -> {[fingerprint |-> fp] : fp \in Fingerprints}
    [] o = "create-silence" ->
         {[matchers |-> ms, endsAt |-> "2030-01-01T00:00:00Z", createdBy |-> "u",
           comment |-> c] @@ st :
            ms \in SeqsUpTo(Matchers, MaxMatchers), c \in Comments, st \in OptStartsAt}
    [] o = "get-silences" -> OptFilter
    [] o = "delete-silence" -> {[silenceId |-> id] : id \in SilenceIds}
    [] o = "get-alert-groups" -> OptBools({"active", "silenced", "inhibited"})

\* ------------------------------------------------------------------------
\* Inputs: what the upstream may answer
\* ------------------------------------------------------------------------
Responses ==
  {[status |-> 200, statusText |-> "OK"],
   [status |-> 404, statusText |-> "Not Found"],
   [status |-> 500, statusText |-> "Internal Server Error"]}

Arr(v) == [t |-> "array", v |-> v]
Obj(v) == [t |-> "object", v |-> v]
Null == [t |-> "null"]
JsonBody(v) == [kind |-> "json", value |-> v]
EmptyBody == [kind |-> "empty"]
TextBody == [kind |-> "text"]
NoBody == [kind |-> "none"]
NoResponse == [status |-> 0, statusText |-> "", body |-> NoBody]

Alerts ==
  {\* a complete alert
   [fingerprint |-> "fp1",
    status |-> [state |-> "active", silencedBy |-> <<>>, inhibitedBy |-> <<>>],
    labels |-> [alertname |-> "HighCPU", severity |-> "critical"],
    annotations |-> [summary |-> "cpu", description |-> "cpu is high"],
    startsAt |-> "2026-01-01T00:00:00Z", endsAt |-> "2026-01-02T00:00:00Z",
    generatorURL |-> "http://prom/graph"],
   \* the same fingerprint again: silenced, no severity, no annotations
   [fingerprint |-> "fp1",
    status |-> [state |-> "suppressed", silencedBy |-> <<"s1">>, inhibitedBy |-> <<>>],
    labels |-> [alertname |-> "DiskFull"],
    annotations |-> <<>>,
    startsAt |-> "2026-01-03T00:00:00Z", endsAt |-> "2026-01-04T00:00:00Z",
    generatorURL |-> "http://prom/disk"],
   \* inhibited, with an empty severity label and an empty summary
   [fingerprint |-> "",
    status |-> [state |-> "suppressed", silencedBy |-> <<>>, inhibitedBy |-> <<"fp1">>],
    labels |-> [alertname |-> "Net", severity |-> ""],
    annotations |-> [summary |-> ""],
    startsAt |-> "2026-01-05T00:00:00Z", endsAt |-> "2026-01-06T00:00:00Z",
    generatorURL |-> ""],
   \* silenced and inhibited at once, not yet processed
   [fingerprint |-> "fp2",
    status |-> [state |-> "unprocessed", silencedBy |-> <<"s1", "s2">>,
                inhibitedBy |-> <<"fp1">>],
    labels |-> [alertname |-> "Mem", severity |-> "warning"],
    annotations |-> [description |-> "memory"],
    startsAt |-> "2026-01-07T00:00:00Z", endsAt |-> "2026-01-08T00:00:00Z",
    generatorURL |-> "http://prom/mem"],
   \* malformed: an element with no labels, annotations or status
   [fingerprint |-> "fp9"]}

Silences ==
  {[id |-> "s1", status |-> [state |-> "active"], createdBy |-> "u", comment |-> "c",
    startsAt |-> "2026-01-01T00:00:00Z", endsAt |-> "2026-01-02T00:00:00Z",
    matchers |-> <<[name |-> "alertname", value |-> "X", isRegex |-> FALSE]>>],
   [id |-> "s2", status |-> [state |-> "expired"], createdBy |-> "v", comment |-> "",
    startsAt |-> "2025-01-01T00:00:00Z", endsAt |-> "2025-01-02T00:00:00Z",
    matchers |-> <<>>],
   \* malformed: an element with no status
   [id |-> "s3"]}

UnparsableBodies == {EmptyBody, TextBody}
ListBodies(S) ==
  {JsonBody(Arr(l)) : l \in SeqsUpTo(S, MaxList)}
  \cup {JsonBody(Obj(<<>>)), JsonBody(Null)} \cup UnparsableBodies

Bodies(o) ==
  CASE o \in {"get-alerts", "get-alert-details"} -> ListBodies(Alerts)
    [] o = "get-silences" -> ListBodies(Silences)
    [] o = "create-silence" ->
         {JsonBody(Obj([silenceID |-> "s7"])), JsonBody(Obj(<<>>)), JsonBody(Null)}
         \cup UnparsableBodies
    [] o = "delete-silence" ->
         {JsonBody(Obj(<<>>)), JsonBody(Null)} \cup UnparsableBodies
    [] o = "get-alert-groups" ->
         {JsonBody(Arr(<<>>)),
          JsonBody(Arr(<<[labels |-> [job |-> "n"], alerts |-> <<>>]>>)),
          JsonBody(Null)}
         \cup UnparsableBodies

\* ------------------------------------------------------------------------
\* State
\* ------------------------------------------------------------------------
VARIABLES
  env,         \* process.env, fixed at startup
  console,     \* what console.* has written, in order, each text with its stream
  pc,          \* per invocation: idle, fetch (awaiting fetch()), body (awaiting
               \* response.json()), handler (fetchFromAlertmanager settled, the
               \* handler's await not yet resumed), done (envelope returned),
               \* escaped (handler threw)
  op,          \* per invocation: the tool invoked
  args,        \* per invocation: its arguments
  clockReads,  \* per invocation: the instants new Date() returned to it, in order
  requests,    \* per invocation: the fetch() calls it issued, in order
  timer,       \* per invocation: its timeout timer: unset, armed, cleared, fired
  aborted,     \* per invocation: its AbortController's signal.aborted
  elapsed,     \* per invocation: ms since its timer was armed
  response,    \* per invocation: what the upstream has delivered so far
  raised,      \* per invocation: the error its handler's try block threw, if any
  result       \* per invocation: the envelope it returned

vars ==
  <<env, console, pc, op, args, clockReads, requests, timer, aborted, elapsed,
    response, raised, result>>

\* main(): the server is connected and has announced itself on the standard error
StartupLine == <<Lit("Alertmanager MCP Server started on stdio")>>

Init ==
  /\ env \in Environments
  /\ console = <<ConsoleError(StartupLine)>>
  /\ pc = [i \in Inv |-> "idle"]
  /\ op = [i \in Inv |-> "none"]
  /\ args = [i \in Inv |-> <<>>]
  /\ clockReads = [i \in Inv |-> <<>>]
  /\ requests = [i \in Inv |-> <<>>]
  /\ timer = [i \in Inv |-> "unset"]
  /\ aborted = [i \in Inv |-> FALSE]
  /\ elapsed = [i \in Inv |-> 0]
  /\ response = [i \in Inv |-> NoResponse]
  /\ raised = [i \in Inv |-> NoError]
  /\ result = [i \in Inv |-> NoResult]

\* ------------------------------------------------------------------------
\* Actions
\* ------------------------------------------------------------------------
\* The host invokes tool o with validated arguments a.  The handler runs up to
\* the await of fetch(): it builds the path and the options, and
\* fetchFromAlertmanager creates the controller, arms the timer and calls fetch.
\* t is the instant the clock shows, which only create-silence reads.
InvokeWith(i, o, a, t) ==
  /\ pc[i] = "idle"
  /\ LET call == HandlerCall(o, a, toISOString(t))
     IN  /\ op' = [op EXCEPT ![i] = o]
         /\ args' = [args EXCEPT ![i] = a]
         /\ clockReads' =
              [clockReads EXCEPT
                 ![i] = IF o = "create-silence" THEN <<t>> ELSE <<>>]
         /\ requests' =
              [requests EXCEPT
                 ![i] = Append(@, [url |-> Url(env, call.path),
                                   options |-> call.options])]
  /\ timer' = [timer EXCEPT ![i] = "armed"]
  /\ elapsed' = [elapsed EXCEPT ![i] = 0]
  /\ pc' = [pc EXCEPT ![i] = "fetch"]
  /\ UNCHANGED <<env, console, aborted, response, raised, result>>

Invoke(i) ==
  \E o \in Operations :
    \E a \in ArgsOf(o) :
      \E t \in (IF o = "create-silence" THEN WallClock ELSE {0}) :
        InvokeWith(i, o, a, t)

\* Time passes for invocation i.  An armed timer fires once its delay has elapsed.
Tick(i) ==
  /\ pc[i] \in {"fetch", "body"} \/ timer[i] = "armed"
  /\ pc[i] # "handler"
  /\ elapsed[i] < MaxElapsed
  /\ ~(timer[i] = "armed" /\ elapsed[i] >= DEFAULT_TIMEOUT)
  /\ elapsed' = [elapsed EXCEPT ![i] = @ + TickMs]
  /\ UNCHANGED <<env, console, pc, op, args, clockReads, requests, timer, aborted,
                 response, raised, result>>

\* (mutant) one AbortController shared by every call: a timer aborts them all
TimerFiresShared(i) ==
  /\ pc[i] # "handler"
  /\ timer[i] = "armed"
  /\ elapsed[i] >= DEFAULT_TIMEOUT
  /\ timer' = [timer EXCEPT ![i] = "fired"]
  /\ aborted' = [j \in Inv |-> TRUE]
  /\ UNCHANGED <<env, console, pc, op, args, clockReads, requests, elapsed,
                 response, raised, result>>

\* setTimeout(() => controller.abort(), DEFAULT_TIMEOUT).  A timer callback
\* runs only once the pending continuations have run.
TimerFires(i) ==
  /\ pc[i] # "handler"
  /\ timer[i] = "armed"
  /\ elapsed[i] >= DEFAULT_TIMEOUT
  /\ timer' = [timer EXCEPT ![i] = "fired"]
  /\ aborted' = [aborted EXCEPT ![i] = TRUE]
  /\ UNCHANGED <<env, console, pc, op, args, clockReads, requests, elapsed,
                 response, raised, result>>

\* (mutant) a catch block that rethrows without logging
ClientThrowsSilently(i, error) ==
  /\ console' = console
  /\ raised' = [raised EXCEPT ![i] = error]
  /\ pc' = [pc EXCEPT ![i] = "handler"]
  /\ UNCHANGED result

\* An error thrown inside fetchFromAlertmanager's try block: its catch block
\* logs it and rethrows it.  The promise the handler awaits is rejected; the
\* handler's catch block runs in a later step (HandlerResumes).
ClientThrows(i, error) ==
  /\ console' = Append(console, ConsoleError(LogLine(error)))
  /\ raised' = [raised EXCEPT ![i] = error]
  /\ pc' = [pc EXCEPT ![i] = "handler"]
  /\ UNCHANGED result

\* fetch() rejects because the signal was aborted
FetchAborted(i) ==
  /\ pc[i] = "fetch"
  /\ aborted[i]
  /\ ClientThrows(i, MkError("AbortError", <<Lit("This operation was aborted")>>))
  /\ UNCHANGED <<env, op, args, clockReads, requests, timer, aborted, elapsed,
                 response>>

\* (mutant) a network error makes the client issue the request once more
FetchRejectsRetrying(i) ==
  /\ pc[i] = "fetch"
  /\ ~aborted[i]
  /\ Len(requests[i]) < 2
  /\ requests' = [requests EXCEPT ![i] = Append(@, @[1])]
  /\ UNCHANGED <<env, console, pc, op, args, clockReads, timer, aborted, elapsed,
                 response, raised, result>>

\* fetch() rejects because of a network error
FetchRejects(i) ==
  /\ pc[i] = "fetch"
  /\ ~aborted[i]
  /\ ClientThrows(i, MkError("TypeError", <<Lit("fetch failed")>>))
  /\ UNCHANGED <<env, op, args, clockReads, requests, timer, aborted, elapsed,
                 response>>

\* fetch() resolves: the status line and the headers arrived.  The timer is
\* cleared; a status outside 200..299 is thrown, otherwise response.json() is
\* awaited.
FetchResolvesWith(i, r) ==
  /\ pc[i] = "fetch"
  /\ ~aborted[i]
  /\ response' = [response EXCEPT ![i] = r @@ [body |-> NoBody]]
  /\ IF Ok(r.status)
       THEN /\ pc' = [pc EXCEPT ![i] = "body"]
            /\ UNCHANGED <<console, raised, result>>
       ELSE ClientThrows(i, HttpError(r.status, r.statusText))
  /\ timer' = [timer EXCEPT ![i] = "cleared"]
  /\ UNCHANGED <<env, op, args, clockReads, requests, aborted, elapsed>>

FetchResolves(i) == \E r \in Responses : FetchResolvesWith(i, r)

\* response.json() settles: the body arrived and is parsed.  A body that
\* does not parse is thrown; otherwise fetchFromAlertmanager returns the
\* parsed document, which the handler receives in a later step.
BodyArrivesWith(i, b) ==
  /\ pc[i] = "body"
  /\ response' = [response EXCEPT ![i].body = b]
  /\ IF ResponseJson(b).kind = "throw"
       THEN ClientThrows(i, ResponseJson(b).error)
       ELSE /\ pc' = [pc EXCEPT ![i] = "handler"]
            /\ UNCHANGED <<console, raised, result>>
  /\ UNCHANGED <<env, op, args, clockReads, requests, timer, aborted, elapsed>>

BodyArrives(i) ==
  /\ pc[i] = "body"
  /\ \E b \in Bodies(op[i]) : BodyArrivesWith(i, b)

\* response.json() rejects because the connection broke while the body was read
BodyFails(i) ==
  /\ pc[i] = "body"
  /\ ClientThrows(i, MkError("TypeError", <<Lit("terminated")>>))
  /\ UNCHANGED <<env, op, args, clockReads, requests, timer, aborted, elapsed,
                 response>>

\* The handler's await resumes with what fetchFromAlertmanager settled to:
\* with the data the rest of the try block formats it (a throw in there goes
\* to the catch block), with an error the catch block builds the error
\* envelope; the handler returns.
HandlerResumes(i) ==
  /\ pc[i] = "handler"
  /\ LET then == IF raised[i] # NoError THEN Throw(raised[i])
                 ELSE HandlerThen(op[i], args[i],
                                  ResponseJson(response[i].body).value)
         completion == HandlerTry(op[i], then)
     IN  /\ raised' = [raised EXCEPT ![i] = then.error]
         /\ result' = [result EXCEPT ![i] = completion.value]
         /\ pc' = [pc EXCEPT ![i] = IF completion.kind = "return" THEN "done"
                                    ELSE "escaped"]
  /\ UNCHANGED <<env, console, op, args, clockReads, requests, timer, aborted,
                 elapsed, response>>

\* Spec follows one invocation, over every tool, argument and upstream answer.
Solo == {1}

Next ==
  \E i \in Solo :
    \/ Invoke(i)
    \/ Tick(i)
    \/ TimerFires(i)
    \/ FetchAborted(i)
    \/ FetchRejects(i)
    \/ FetchResolves(i)
    \/ BodyArrives(i)
    \/ BodyFails(i)
    \/ HandlerResumes(i)

Spec == Init /\ [][Next]_vars

\* SpecConc follows every invocation slot at once, the host dispatching
\* overlapping requests, over a few calls and upstream answers: a call ends by
\* a network error, by its timeout, by a 500 or by a 200 with a JSON body.
CompleteAlert ==
  CHOOSE a \in Alerts : "labels" \in DOMAIN a /\ a.labels.alertname = "HighCPU"
ConcCalls ==
  {[op |-> "get-alert-details", args |-> [fingerprint |-> "fp1"]],
   [op |-> "delete-silence", args |-> [silenceId |-> "s1"]]}
ConcResponses == {r \in Responses : r.status \in {200, 500}}
ConcBodies == {JsonBody(Arr(<<CompleteAlert>>))}

ConcInvoke(i) == \E c \in ConcCalls : InvokeWith(i, c.op, c.args, 0)
ConcFetchResolves(i) == \E r \in ConcResponses : FetchResolvesWith(i, r)
ConcBodyArrives(i) == \E b \in ConcBodies : BodyArrivesWith(i, b)

NextConc ==
  \E i \in Inv :
    \/ ConcInvoke(i)
    \/ Tick(i)
    \/ TimerFires(i)
    \/ FetchAborted(i)
    \/ FetchRejects(i)
    \/ ConcFetchResolves(i)
    \/ ConcBodyArrives(i)
    \/ HandlerResumes(i)

\* the server was started without ALERTMANAGER_URL
InitConc == Init /\ env = <<>>

SpecConc == InitConc /\ [][NextConc]_vars

\* ------------------------------------------------------------------------
\* Vocabulary of the properties
\* ------------------------------------------------------------------------
Done(i) == pc[i] = "done"
IsFailure(r) == DOMAIN r = {"content", "isError"} /\ r.isError = TRUE
IsSuccess(r) == DOMAIN r = {"content"}
OneTextBlock(r) ==
  /\ Len(r.content) = 1
  /\ DOMAIN r.content[1] = {"type", "text"}
  /\ r.content[1].type = "text"
TextOf(r) == r.content[1].text
\* the text has the literal s as one of its parts
Embeds(text, s) == \E k \in 1..Len(text) : text[k] = Lit(s)
\* the prefixes as the specification lists them
SpecifiedPrefix ==
  [o \in Operations |->
     CASE o = "get-alerts" -> "Error fetching alerts: "
       [] o = "get-alert-details" -> "Error fetching alert details: "
       [] o = "create-silence" -> "Error creating silence: "
       [] o = "get-silences" -> "Error fetching silences: "
       [] o = "delete-silence" -> "Error deleting silence: "
       [] o = "get-alert-groups" -> "Error fetching alert groups: "]
\* the upstream answered with a status, with a complete body
Answered(i) == response[i].status # 0
Is2xx(i) == response[i].status \in 200..299
BodyDelivered(i) == response[i].body.kind # "none"
\* the request invocation i issued
Request(i) == requests[i][1]
\* the upstream failed invocation i's call, or its payload could not be formatted
UpstreamFailed(i) ==
  \/ Answered(i) /\ ~Is2xx(i)
  \/ response[i].body.kind \in {"empty", "text"}
  \/ raised[i].name \in {"AbortError", "TypeError", "SyntaxError", "Error"}

\* ------------------------------------------------------------------------
\* C1.  A failure raised while calling the upstream or while formatting its
\* answer is caught inside the handler and returned as a failure envelope
\* (isError = true) whose text starts with the operation's own prefix; no
\* invocation ends by raising past its handler.
\* ------------------------------------------------------------------------
C1_FailuresCaughtWithPrefix ==
  \A i \in Inv :
    /\ pc[i] # "escaped"
    /\ (pc[i] \in {"done", "escaped"} /\ UpstreamFailed(i)) =>
         /\ Done(i)
         /\ IsFailure(result[i])
         /\ OneTextBlock(result[i])
         /\ Head(TextOf(result[i])) = Lit(SpecifiedPrefix[op[i]])

\* a malformed payload made the formatting throw, and the handler returned
C1_Witness ==
  \E i \in Inv :
    /\ Done(i)
    /\ op[i] = "get-silences"
    /\ response[i].body.kind = "json"
    /\ raised[i].name = "TypeError"

\* ------------------------------------------------------------------------
\* C2.  Every completed invocation returns exactly one envelope, a success
\* (one text block, isError not set) or a failure (one text block holding
\* only an error message, isError true).  A failure carries no payload, and
\* the list a successful get-alerts or get-silences returns has every element
\* of the upstream list.
\* ------------------------------------------------------------------------
C2_NoPartialResult ==
  \A i \in Inv :
    Done(i) =>
      LET r == result[i]
      IN  /\ IsSuccess(r) \/ IsFailure(r)
          /\ OneTextBlock(r)
          /\ IsFailure(r) => \A k \in 1..Len(TextOf(r)) : IsLit(TextOf(r)[k])
          /\ (IsSuccess(r) /\ op[i] \in {"get-alerts", "get-silences"}) =>
               /\ Len(TextOf(r)) = 1
               /\ IsJson(TextOf(r)[1])
               /\ response[i].body.kind = "json"
               /\ response[i].body.value.t = "array"
               /\ Len(TextOf(r)[1].json) = Len(response[i].body.value.v)

\* get-alerts got a list whose second element is malformed, and returned
C2_Witness ==
  \E i \in Inv :
    /\ Done(i)
    /\ op[i] = "get-alerts"
    /\ response[i].body.kind = "json"
    /\ response[i].body.value.t = "array"
    /\ Len(response[i].body.value.v) = 2
    /\ "labels" \in DOMAIN response[i].body.value.v[1]
    /\ "labels" \notin DOMAIN response[i].body.value.v[2]
    /\ IsFailure(result[i])

\* ------------------------------------------------------------------------
\* C3.  Every upstream call is bounded by the 10-second timeout: a call that
\* has not received its complete response (status line and body) when the
\* timeout has elapsed is aborted.
\* ------------------------------------------------------------------------
C3_CallBoundedByTimeout ==
  \A i \in Inv :
    (pc[i] \in {"fetch", "body"} /\ elapsed[i] > DEFAULT_TIMEOUT) => aborted[i]

\* ------------------------------------------------------------------------
\* C4.  delete-silence issues one DELETE to silence/{silenceId}, and whenever
\* the upstream answers it with a 2xx status the operation returns a success
\* envelope whose text embeds the silenceId, whatever the body is: once the
\* handler has returned after a 2xx answer whose body arrived, the envelope
\* is that success.
\* ------------------------------------------------------------------------
C4_DeleteDiscardsBody ==
  \A i \in Inv :
    (op[i] = "delete-silence" /\ pc[i] # "idle") =>
      /\ Len(requests[i]) = 1
      /\ Request(i).options.method = "DELETE"
      /\ Request(i).url = <<baseUrl(env), "/api/v2/", "silence/", args[i].silenceId>>
      /\ (Is2xx(i) /\ BodyDelivered(i)) => pc[i] \in {"handler", "done"}
      /\ (Done(i) /\ Is2xx(i) /\ BodyDelivered(i)) =>
           /\ IsSuccess(result[i])
           /\ Embeds(TextOf(result[i]), args[i].silenceId)

\* ------------------------------------------------------------------------
\* C5.  An upstream answer with a non-2xx status is a failure whose message
\* embeds the numeric status code and the status text; a 404 answer to
\* delete-silence gives isError = true with "404" in the message; the body of
\* a non-2xx answer is never read or returned: the client throws as soon as
\* the status is known and the handler returns the failure.
\* ------------------------------------------------------------------------
C5_Non2xxIsFailure ==
  \A i \in Inv :
    (Answered(i) /\ ~Is2xx(i)) =>
      /\ pc[i] \in {"handler", "done"}
      /\ raised[i].name = "Error"
      /\ ~BodyDelivered(i)
      /\ Done(i) =>
           /\ IsFailure(result[i])
           /\ Embeds(TextOf(result[i]), ToString(response[i].status))
           /\ Embeds(TextOf(result[i]), response[i].statusText)
           /\ (op[i] = "delete-silence" /\ response[i].status = 404) =>
                Embeds(TextOf(result[i]), "404")
           /\ \A k \in 1..Len(TextOf(result[i])) : IsLit(TextOf(result[i])[k])

C5_Witness ==
  \E i \in Inv :
    /\ Done(i)
    /\ op[i] = "delete-silence"
    /\ response[i].status = 404
    /\ IsFailure(result[i])

\* ------------------------------------------------------------------------
\* C6.  When the fingerprint occurs in the alert list get-alert-details
\* fetched, the operation returns a success envelope built from the first
\* alert in list order whose fingerprint equals the input: the payload's
\* fingerprint is the input and its labels, annotations, startsAt, endsAt,
\* generatorURL and status are that alert's, unprojected.  The alert found is
\* an Alert: it has every field of the Alert interface; the other elements
\* of the list may be malformed.
\* ------------------------------------------------------------------------
AlertFields ==
  {"fingerprint", "status", "labels", "annotations", "startsAt", "endsAt",
   "generatorURL"}
IsAlert(a) == AlertFields \subseteq DOMAIN a
\* the upstream delivered a JSON array to invocation i
FetchedList(i) ==
  /\ response[i].body.kind = "json"
  /\ response[i].body.value.t = "array"
ListOf(i) == response[i].body.value.v
HasFingerprint(a, fp) == "fingerprint" \in DOMAIN a /\ a.fingerprint = fp
Occurs(fp, list) == \E k \in 1..Len(list) : HasFingerprint(list[k], fp)
FirstOccurrence(fp, list) ==
  CHOOSE k \in 1..Len(list) :
    /\ HasFingerprint(list[k], fp)
    /\ \A j \in 1..(k - 1) : ~HasFingerprint(list[j], fp)

C6_DetailsOfFirstMatch ==
  \A i \in Inv :
    (/\ op[i] = "get-alert-details"
     /\ Done(i)
     /\ FetchedList(i)
     /\ Occurs(args[i].fingerprint, ListOf(i))
     /\ IsAlert(ListOf(i)[FirstOccurrence(args[i].fingerprint, ListOf(i))])) =>
      LET alert == ListOf(i)[FirstOccurrence(args[i].fingerprint, ListOf(i))]
          text == TextOf(result[i])
      IN  /\ IsSuccess(result[i])
          /\ Len(text) = 1
          /\ IsJson(text[1])
          /\ text[1].json.fingerprint = args[i].fingerprint
          /\ \A f \in AlertFields : text[1].json[f] = alert[f]

\* the fingerprint asked for occurs twice in the fetched list
C6_Witness ==
  \E i \in Inv :
    /\ op[i] = "get-alert-details"
    /\ Done(i)
    /\ FetchedList(i)
    /\ Len(ListOf(i)) = 2
    /\ \A k \in 1..2 : IsAlert(ListOf(i)[k]) /\ ListOf(i)[k].fingerprint = "fp1"
    /\ ListOf(i)[1] # ListOf(i)[2]
    /\ args[i].fingerprint = "fp1"
    /\ IsSuccess(result[i])

\* ------------------------------------------------------------------------
\* C7.  When the fingerprint does not occur in the successfully fetched list
\* (the empty fingerprint and the empty list included), get-alert-details
\* returns isError = true with the text "Alert with fingerprint <fingerprint>
\* not found"; that outcome follows a successful upstream call only, and its
\* wording differs from a transport failure's, which starts with
\* "Error fetching alert details: ".
\* ------------------------------------------------------------------------
NotFoundText(fp) == <<Lit("Alert with fingerprint "), Lit(fp), Lit(" not found")>>

C7_NotFoundIsDistinct ==
  \A i \in Inv :
    (op[i] = "get-alert-details" /\ Done(i)) =>
      /\ (FetchedList(i) /\ ~Occurs(args[i].fingerprint, ListOf(i))) =>
           /\ IsFailure(result[i])
           /\ TextOf(result[i]) = NotFoundText(args[i].fingerprint)
      /\ (Head(TextOf(result[i])) = Lit("Alert with fingerprint ")) =>
           /\ Is2xx(i)
           /\ FetchedList(i)
           /\ raised[i] = NoError
           /\ ~Occurs(args[i].fingerprint, ListOf(i))
      /\ raised[i] # NoError =>
           Head(TextOf(result[i])) = Lit("Error fetching alert details: ")

\* the empty fingerprint was looked up in a non-empty list that lacks it
C7_Witness ==
  \E i \in Inv :
    /\ op[i] = "get-alert-details"
    /\ Done(i)
    /\ FetchedList(i)
    /\ Len(ListOf(i)) > 0
    /\ args[i].fingerprint = ""
    /\ ~Occurs("", ListOf(i))
    /\ IsFailure(result[i])

\* ------------------------------------------------------------------------
\* C8.  The query string of get-alerts (and of get-alert-groups, for the
\* three booleans) has silenced=true iff silenced is true, inhibited=true iff
\* inhibited is true and active=false iff active is explicitly false; an
\* omitted boolean contributes no parameter; with no parameter the path has
\* no "?".
\*   As claimed: it has filter iff filter is present.
\*   As amended: it has filter iff filter is present and not the empty string.
\* ------------------------------------------------------------------------
\* the path of the request: the url after the base url and "/api/v2/"
PathOf(i) == SubSeq(Request(i).url, 3, Len(Request(i).url))
\* the query has the parameter name=value, value given as its encoded tokens
HasParam(path, name, value) ==
  \E k \in 2..Len(path) :
    /\ path[k - 1] \in {"?", "&"}
    /\ k + 1 + Len(value) <= Len(path)
    /\ SubSeq(path, k, k + 1 + Len(value)) = <<name, "=">> \o value
    /\ (k + 1 + Len(value) = Len(path) \/ path[k + 2 + Len(value)] = "&")
HasParamNamed(path, name) ==
  \E k \in 2..Len(path) : path[k - 1] \in {"?", "&"} /\ path[k] = name
IsTrue(a, key) == key \in DOMAIN a /\ a[key] = TRUE
IsFalse(a, key) == key \in DOMAIN a /\ a[key] = FALSE

BooleansEncoded(i) ==
  LET a == args[i]
      path == PathOf(i)
  IN  /\ HasParamNamed(path, "silenced") <=> IsTrue(a, "silenced")
      /\ HasParamNamed(path, "silenced") => HasParam(path, "silenced", <<"true">>)
      /\ HasParamNamed(path, "inhibited") <=> IsTrue(a, "inhibited")
      /\ HasParamNamed(path, "inhibited") => HasParam(path, "inhibited", <<"true">>)
      /\ HasParamNamed(path, "active") <=> IsFalse(a, "active")
      /\ HasParamNamed(path, "active") => HasParam(path, "active", <<"false">>)

NoParamNoQuestionMark(i, resource) ==
  LET path == PathOf(i)
  IN  /\ path[1] = resource
      /\ (\A n \in {"filter", "silenced", "inhibited", "active"} :
            ~HasParamNamed(path, n)) <=> (path = <<resource>>)
      /\ path # <<resource>> => path[2] = "?" /\ Len(path) > 2

C8_Original_FilterIffPresent ==
  \A i \in Inv :
    /\ (op[i] = "get-alerts" /\ pc[i] # "idle") =>
         /\ HasParamNamed(PathOf(i), "filter") <=> "filter" \in DOMAIN args[i]
         /\ BooleansEncoded(i)
         /\ NoParamNoQuestionMark(i, "alerts")
    /\ (op[i] = "get-alert-groups" /\ pc[i] # "idle") =>
         /\ BooleansEncoded(i)
         /\ NoParamNoQuestionMark(i, "alerts/groups")

C8_QueryString ==
  \A i \in Inv :
    /\ (op[i] = "get-alerts" /\ pc[i] # "idle") =>
         /\ HasParamNamed(PathOf(i), "filter") <=>
              ("filter" \in DOMAIN args[i] /\ args[i].filter # <<>>)
         /\ HasParamNamed(PathOf(i), "filter") =>
              HasParam(PathOf(i), "filter", EncodeTokens(args[i].filter))
         /\ BooleansEncoded(i)
         /\ NoParamNoQuestionMark(i, "alerts")
    /\ (op[i] = "get-alert-groups" /\ pc[i] # "idle") =>
         /\ BooleansEncoded(i)
         /\ ~HasParamNamed(PathOf(i), "filter")
         /\ NoParamNoQuestionMark(i, "alerts/groups")

\* get-alerts was invoked with a filter, silenced = true, inhibited = false
\* and active omitted
C8_Witness ==
  \E i \in Inv :
    /\ op[i] = "get-alerts"
    /\ pc[i] # "idle"
    /\ DOMAIN args[i] = {"filter", "silenced", "inhibited"}
    /\ args[i].filter # <<>>
    /\ args[i].silenced = TRUE
    /\ args[i].inhibited = FALSE

\* ------------------------------------------------------------------------
\* C9.  In the body create-silence POSTs to silences, endsAt, createdBy and
\* comment are the caller's, unchanged, and the clock is read exactly once
\* during the invocation.
\*   As claimed: startsAt is the caller's startsAt whenever one was supplied,
\*   for every supplied string, and the timestamp read from the clock only
\*   when startsAt was omitted.
\*   As amended: startsAt is the caller's startsAt whenever a non-empty one
\*   was supplied, and the timestamp read from the clock when startsAt was
\*   omitted or is the empty string.
\* ------------------------------------------------------------------------
PostedBody(i) == Request(i).options.body.json
Created(i) == op[i] = "create-silence" /\ pc[i] # "idle"
PostsToSilences(i) ==
  /\ Len(requests[i]) = 1
  /\ Request(i).options.method = "POST"
  /\ Request(i).url = <<baseUrl(env), "/api/v2/", "silences">>

C9_Original_StartsAtPassedThrough ==
  \A i \in Inv :
    Created(i) =>
      /\ PostsToSilences(i)
      /\ Len(clockReads[i]) = 1
      /\ "startsAt" \in DOMAIN args[i] => PostedBody(i).startsAt = args[i].startsAt
      /\ "startsAt" \notin DOMAIN args[i] =>
           PostedBody(i).startsAt = toISOString(clockReads[i][1])
      /\ PostedBody(i).endsAt = args[i].endsAt
      /\ PostedBody(i).createdBy = args[i].createdBy
      /\ PostedBody(i).comment = args[i].comment

C9_StartsAt ==
  \A i \in Inv :
    Created(i) =>
      /\ PostsToSilences(i)
      /\ Len(clockReads[i]) = 1
      /\ ("startsAt" \in DOMAIN args[i] /\ args[i].startsAt # "") =>
           PostedBody(i).startsAt = args[i].startsAt
      /\ ("startsAt" \notin DOMAIN args[i] \/ args[i].startsAt = "") =>
           PostedBody(i).startsAt = toISOString(clockReads[i][1])
      /\ PostedBody(i).endsAt = args[i].endsAt
      /\ PostedBody(i).createdBy = args[i].createdBy
      /\ PostedBody(i).comment = args[i].comment

\* create-silence was invoked with a startsAt and an empty comment, at a
\* moment when the clock did not show the epoch
C9_Witness ==
  \E i \in Inv :
    /\ Created(i)
    /\ "startsAt" \in DOMAIN args[i]
    /\ args[i].startsAt # ""
    /\ args[i].comment = ""
    /\ clockReads[i] # <<0>>

\* ------------------------------------------------------------------------
\* C10.  In the body create-silence POSTs, the matchers have the length and
\* the order of the input, each keeps its name and value, a matcher that
\* omitted isRegex has isRegex = false and one that supplied it keeps it.
\* ------------------------------------------------------------------------
C10_MatchersNormalized ==
  \A i \in Inv :
    Created(i) =>
      LET in == args[i].matchers
          out == PostedBody(i).matchers
      IN  /\ Len(out) = Len(in)
          /\ \A k \in 1..Len(in) :
               /\ DOMAIN out[k] = {"name", "value", "isRegex"}
               /\ out[k].name = in[k].name
               /\ out[k].value = in[k].value
               /\ "isRegex" \notin DOMAIN in[k] => out[k].isRegex = FALSE
               /\ "isRegex" \in DOMAIN in[k] => out[k].isRegex = in[k].isRegex

\* two matchers were passed: one with isRegex = true, then one without isRegex
C10_Witness ==
  \E i \in Inv :
    /\ Created(i)
    /\ Len(args[i].matchers) = 2
    /\ IsTrue(args[i].matchers[1], "isRegex")
    /\ "isRegex" \notin DOMAIN args[i].matchers[2]

\* ------------------------------------------------------------------------
\* C11.  create-silence requires a non-empty matcher sequence: no invocation
\* the argument schema accepts POSTs a body whose matchers list is empty.
\* ------------------------------------------------------------------------
C11_NoEmptyMatchersPosted ==
  \A i \in Inv : Created(i) => Len(PostedBody(i).matchers) > 0

\* ------------------------------------------------------------------------
\* C12.  The list get-alerts returns has the length and the order of the
\* upstream list.
\*   As claimed: severity is the alert's severity label when the label
\*   exists and "unknown" when it is lacking; summary and description are the
\*   annotations when present and the placeholders when lacking.
\*   As amended: severity is the severity label when the label exists and is
\*   not the empty string, and "unknown" when it is lacking or empty; summary
\*   and description are the annotations when present and not empty, and the
\*   placeholders when lacking or empty.
\* ------------------------------------------------------------------------
GotAlerts(i) == op[i] = "get-alerts" /\ Done(i) /\ IsSuccess(result[i])
FormattedList(i) == TextOf(result[i])[1].json
SameLengthAndOrder(in, out) ==
  /\ Len(out) = Len(in)
  /\ \A k \in 1..Len(in) :
       /\ "fingerprint" \in DOMAIN out[k] <=> "fingerprint" \in DOMAIN in[k]
       /\ "fingerprint" \in DOMAIN in[k] => out[k].fingerprint = in[k].fingerprint
       /\ out[k].labels = in[k].labels
Lacks(obj, key) == key \notin DOMAIN obj
LacksOrEmpty(obj, key) == key \notin DOMAIN obj \/ obj[key] = ""

C12_Original_DefaultsWhenLacking ==
  \A i \in Inv :
    GotAlerts(i) =>
      LET in == ListOf(i)
          out == FormattedList(i)
      IN  /\ SameLengthAndOrder(in, out)
          /\ \A k \in 1..Len(in) :
               /\ out[k].severity =
                    IF Lacks(in[k].labels, "severity") THEN "unknown"
                    ELSE in[k].labels.severity
               /\ out[k].summary =
                    IF Lacks(in[k].annotations, "summary") THEN "No summary provided"
                    ELSE in[k].annotations.summary
               /\ out[k].description =
                    IF Lacks(in[k].annotations, "description")
                    THEN "No description provided"
                    ELSE in[k].annotations.description

C12_DefaultsWhenLackingOrEmpty ==
  \A i \in Inv :
    GotAlerts(i) =>
      LET in == ListOf(i)
          out == FormattedList(i)
      IN  /\ SameLengthAndOrder(in, out)
          /\ \A k \in 1..Len(in) :
               /\ out[k].severity =
                    IF LacksOrEmpty(in[k].labels, "severity") THEN "unknown"
                    ELSE in[k].labels.severity
               /\ out[k].summary =
                    IF LacksOrEmpty(in[k].annotations, "summary")
                    THEN "No summary provided"
                    ELSE in[k].annotations.summary
               /\ out[k].description =
                    IF LacksOrEmpty(in[k].annotations, "description")
                    THEN "No description provided"
                    ELSE in[k].annotations.description

\* get-alerts returned two alerts: the first has no severity label, the
\* second an empty one and an empty summary
C12_Witness ==
  \E i \in Inv :
    /\ GotAlerts(i)
    /\ Len(ListOf(i)) = 2
    /\ Lacks(ListOf(i)[1].labels, "severity")
    /\ ~Lacks(ListOf(i)[2].labels, "severity")
    /\ ListOf(i)[2].labels.severity = ""
    /\ ~Lacks(ListOf(i)[2].annotations, "summary")
    /\ ListOf(i)[2].annotations.summary = ""

\* ------------------------------------------------------------------------
\* C13.  In every alert get-alerts returns, status.silenced is true iff the
\* source silencedBy has length > 0 and status.inhibited is true iff the
\* source inhibitedBy has length > 0, each independently of the other and of
\* the state string, which is copied unchanged.
\* ------------------------------------------------------------------------
C13_SilencedInhibited ==
  \A i \in Inv :
    GotAlerts(i) =>
      LET in == ListOf(i)
          out == FormattedList(i)
      IN  /\ Len(out) = Len(in)
          /\ \A k \in 1..Len(in) :
               /\ DOMAIN out[k].status = {"state", "silenced", "inhibited"}
               /\ out[k].status.silenced = (Len(in[k].status.silencedBy) > 0)
               /\ out[k].status.inhibited = (Len(in[k].status.inhibitedBy) > 0)
               /\ out[k].status.state = in[k].status.state

\* get-alerts returned an alert that is silenced only and one that is
\* inhibited only, both in state "suppressed"
C13_Witness ==
  \E i \in Inv :
    /\ GotAlerts(i)
    /\ Len(ListOf(i)) = 2
    /\ \A k \in 1..2 : ListOf(i)[k].status.state = "suppressed"
    /\ Len(ListOf(i)[1].status.silencedBy) > 0
    /\ Len(ListOf(i)[1].status.inhibitedBy) = 0
    /\ Len(ListOf(i)[2].status.silencedBy) = 0
    /\ Len(ListOf(i)[2].status.inhibitedBy) > 0

\* ------------------------------------------------------------------------
\* C14.  Every invocation goes from idle to its upstream call and from there
\* to done, with no edge back to the upstream call: it issues exactly one
\* HTTP request (get-alert-details included), never a second one after a
\* failure, keeps its operation, arguments and request once started, and no
\* step of one invocation starts or advances another one.
\* ------------------------------------------------------------------------
AllowedEdges ==
  {<<"idle", "fetch">>, <<"fetch", "body">>, <<"fetch", "handler">>,
   <<"body", "handler">>, <<"handler", "done">>}
Advances(i) == pc'[i] # pc[i]

C14_OneRequestNoRetry ==
  [][\A i \in Inv :
       /\ Advances(i) => <<pc[i], pc'[i]>> \in AllowedEdges
       /\ Len(requests'[i]) = (IF pc'[i] = "idle" THEN 0 ELSE 1)
       /\ pc[i] # "idle" =>
            /\ op'[i] = op[i]
            /\ args'[i] = args[i]
            /\ requests'[i] = requests[i]
       /\ \A j \in Inv \ {i} : ~(Advances(i) /\ Advances(j))]_vars

\* get-alert-details ended in a failure envelope after its single request,
\* while another invocation is still at its own upstream call
C14_Witness ==
  \E i \in Inv :
    /\ Done(i)
    /\ op[i] = "get-alert-details"
    /\ raised[i].name = "TypeError"
    /\ ~Answered(i)
    /\ IsFailure(result[i])
    /\ Len(requests[i]) = 1
    /\ \E j \in Inv \ {i} : pc[j] = "fetch"

\* ------------------------------------------------------------------------
\* C15.  With several invocations in flight in any interleaving, each step
\* touches the state of one invocation only, a call is aborted by its own
\* timer only, and the envelope an invocation returns is determined by its
\* own operation, arguments and the outcome of its own request: two
\* invocations that agree on these return the same envelope whatever the
\* others did meanwhile.
\* ------------------------------------------------------------------------
\* the state of invocation i changes in the step
Touched(i) ==
  \/ pc'[i] # pc[i]
  \/ op'[i] # op[i]
  \/ args'[i] # args[i]
  \/ clockReads'[i] # clockReads[i]
  \/ requests'[i] # requests[i]
  \/ timer'[i] # timer[i]
  \/ aborted'[i] # aborted[i]
  \/ elapsed'[i] # elapsed[i]
  \/ response'[i] # response[i]
  \/ raised'[i] # raised[i]
  \/ result'[i] # result[i]
\* what the upstream did to invocation i's own request: its answer, or the
\* way its fetch was rejected
OwnOutcome(i) ==
  [response |-> response[i],
   rejection |-> IF Answered(i) THEN "none" ELSE raised[i].name]
SameCall(i, j) ==
  /\ op[i] = op[j]
  /\ args[i] = args[j]
  /\ OwnOutcome(i) = OwnOutcome(j)
OwnAbortOnly ==
  \A i \in Inv :
    /\ aborted[i] => timer[i] = "fired"
    /\ raised[i].name = "AbortError" =>
         (timer[i] = "fired" /\ elapsed[i] >= DEFAULT_TIMEOUT)
EnvelopeOfOwnCall ==
  \A i, j \in Inv : (Done(i) /\ Done(j) /\ SameCall(i, j)) => result[i] = result[j]

C15_InvocationsIsolated ==
  /\ [](OwnAbortOnly /\ EnvelopeOfOwnCall)
  /\ [][\A i, j \in Inv : (Touched(i) /\ Touched(j)) => i = j]_vars

\* one invocation timed out and returned its failure while another, started
\* before that timeout, is still at its upstream call, not aborted
C15_Witness ==
  \E i, j \in Inv :
    /\ i # j
    /\ Done(i)
    /\ raised[i].name = "AbortError"
    /\ IsFailure(result[i])
    /\ pc[j] = "fetch"
    /\ elapsed[j] > 0
    /\ ~aborted[j]

\* ------------------------------------------------------------------------
\* C16.  Every failure of the upstream client (network error, timeout abort,
\* non-2xx status, body that is not valid JSON), whichever operation made
\* the call, has written exactly one line "Error fetching from Alertmanager:
\* <message>" to the standard error once the client has thrown, before the
\* handler's catch block has the failure and has built any envelope;
\* a call that succeeded wrote none, even when the handler then fails to
\* format the payload, and nothing is ever written to the standard output.
\* ------------------------------------------------------------------------
\* fetchFromAlertmanager has returned or thrown
Ended(i) == pc[i] \in {"handler", "done", "escaped"}
ClientSucceeded(i) == Ended(i) /\ Is2xx(i) /\ response[i].body.kind = "json"
ClientFailed(i) == Ended(i) /\ ~ClientSucceeded(i)
DiagnosticPrefix == Lit("Error fetching from Alertmanager: ")
\* the lines written after the startup line
Diagnostics == Tail(console)

C16_OneDiagnosticPerFailure ==
  /\ \A k \in 1..Len(console) : console[k].stream = "stderr"
  /\ console[1].text = StartupLine
  /\ Len(Diagnostics) = Cardinality({i \in Inv : ClientFailed(i)})
  /\ \A k \in 1..Len(Diagnostics) : Head(Diagnostics[k].text) = DiagnosticPrefix
  /\ \A i \in Inv :
       ClientFailed(i) =>
         /\ raised[i].name \in {"TypeError", "AbortError", "Error", "SyntaxError"}
         /\ \E k \in 1..Len(Diagnostics) :
              Diagnostics[k].text = <<DiagnosticPrefix>> \o raised[i].message
         /\ pc[i] = "handler" => result[i] = NoResult

\* create-silence was answered 500: the client has logged and thrown, the
\* handler has not resumed yet
C16_Witness ==
  \E i \in Inv :
    /\ pc[i] = "handler"
    /\ op[i] = "create-silence"
    /\ response[i].status = 500
    /\ raised[i].name = "Error"
    /\ result[i] = NoResult
    /\ Len(console) = 2

\* ------------------------------------------------------------------------
\* C17.  The timeout timer armed for an upstream call is cancelled on every
\* path on which the call ends: once the call has returned or thrown its
\* timer is not armed any more, it never fires, and no abort is signalled.
\* ------------------------------------------------------------------------
C17_TimerCancelledWhenCallEnds ==
  [][\A i \in Inv :
       Ended(i) =>
         /\ timer[i] # "armed"
         /\ timer'[i] = timer[i]
         /\ aborted'[i] = aborted[i]]_vars

====
